---- MODULE Spec2Model ----
(***************************************************************************)
(* LinexinPackageManager (y-package-manager.py): the search debounce and   *)
(* its worker threads, the transaction supervisor (install, remove, AUR    *)
(* fetch / review / build), the credential prompt and the sudo helper      *)
(* files.                                                                  *)
(*                                                                         *)
(* One GLib main loop runs every handler (signal handlers, timeouts and    *)
(* GLib.idle_add callbacks); worker threads run perform_search, clone_task *)
(* and execute_shell.  idle_q is the queue of idle callbacks, dispatched   *)
(* first in, first out.  A handler is one action, except setup_sudo_env,   *)
(* whose four file system calls are one action each because other          *)
(* processes can observe the files between them.                           *)
(*                                                                         *)
(* Environment assumptions: the child's output decodes as text,            *)
(* tempfile.mkdtemp and shutil.rmtree succeed, and a widget receives       *)
(* clicks only while its stack page is visible and no modal dialog is open.*)
(***************************************************************************)
EXTENDS Naturals, Integers, Sequences, FiniteSets, TLC

\* ---------------------------------------------------------------- bounds
MaxTxn == 2         \* intents accepted in one behaviour
MaxLines == 2       \* output lines one child writes
MaxCancel == 1      \* cancel notes appended to one log
MaxSearches == 2    \* search-changed events in one behaviour
MaxResults == 2     \* records one lookup returns
MaxOut == 3         \* lines in the output of one pacman -Ss
MaxItems == 2       \* results in one answer of the AUR
PipeCapacity == 1   \* chunks of output a pipe holds until they are read

\* ------------------------------------------------------ program constants
batch_size == 30
HelperMode == 448   \* 0o700
CreateMode == 438   \* 0o666, the mode open(path, "w") asks for

None == "None"
NoPid == 0

RepoPkgs == {"vim"}
AurPkgs == {"yay", "paru"}
Passwords == {"", "pw"}           \* what the operator may type in the prompt
Umasks == {18, 63}                \* 0o022, 0o077
ExitCodes == {0, 1, -2}              \* -2: Popen reports death by SIGINT

VARIABLES
    \* transaction supervisor
    content_stack, user_password, process_in_progress, pulse_timer_id,
    current_package_name, current_process, action_type,
    aur_temp_dir, aur_pkg_name, output_buffer, pkgbuild_buffer,
    btn_back_sensitive, btn_cancel_visible, revealer_details,
    lbl_progress_status, info_text, dialog,
    \* file system and processes
    askpass_file, wrapper_file, umask, dirs, procs, threads,
    \* main loop
    idle_q, main, ntxn, last,
    \* search
    search_text, search_timer, search_counter, search_in_progress,
    all_search_results, displayed_count, results_listbox, search_stack,
    aur_check, searchers

txnVars == <<content_stack, user_password, process_in_progress, pulse_timer_id,
    current_package_name, current_process, action_type,
    aur_temp_dir, aur_pkg_name, output_buffer, pkgbuild_buffer,
    btn_back_sensitive, btn_cancel_visible, revealer_details,
    lbl_progress_status, info_text, dialog>>
envVars == <<askpass_file, wrapper_file, umask, dirs, procs, threads>>
searchVars == <<search_text, search_timer, search_counter, search_in_progress,
    all_search_results, displayed_count, results_listbox, search_stack,
    aur_check, searchers>>
vars == <<txnVars, envVars, idle_q, main, ntxn, last, searchVars>>

\* ---------------------------------------------------------------- helpers
\* a & ~m on non-negative integers
RECURSIVE AndNot(_, _)
AndNot(a, m) ==
    IF a = 0 THEN 0
    ELSE (a % 2) * (1 - (m % 2)) + 2 * AndNot(a \div 2, m \div 2)

OwnerOnly(mode) == mode % 64 = 0
WorldWritable(mode) == (mode \div 2) % 2 = 1

AbsentFile == [owner |-> "absent", mode |-> 0, content |-> <<>>]
OwnFile(c) == [owner |-> "self", mode |-> HelperMode, content |-> c]
ForeignFile(m) == [owner |-> "other", mode |-> m, content |-> <<"foreign">>]

\* the text setup_sudo_env writes: the variable's name, never its value
EnvVarName == "LINPAMA_SUDO_PW"
AskpassContent == <<"#!/bin/sh", "echo", "$", EnvVarName>>
WrapperContent == <<"#!/bin/sh", "export SUDO_ASKPASS=", "/tmp/linpama-askpass.sh", "exec sudo -A">>

\* open(path, "w"): creates with CreateMode & ~umask, or truncates keeping
\* the mode; PermissionError on another user's file that is not writable
CanOpenWrite(f) == f.owner # "other" \/ WorldWritable(f.mode)
AfterOpenWrite(f, c) ==
    IF f.owner = "absent"
    THEN [owner |-> "self", mode |-> AndNot(CreateMode, umask), content |-> c]
    ELSE [f EXCEPT !.content = c]
\* os.chmod(path, 0o700): only the owner may
CanChmod(f) == f.owner = "self"
AfterChmod(f) == [f EXCEPT !.mode = HelperMode]

Entry(t, s, n) == [t |-> t, s |-> s, n |-> n]
NoEntry == Entry("none", "", 0)
FetchingNote(pkg) == Entry("fetching", pkg, 0)
CancelNote == Entry("cancelling", "", 0)
FailedNote == Entry("failed", "", 0)
ErrorNote == Entry("error", "", 0)
Line(pid, k) == Entry("line", "", pid * 10 + k)


MainLoop == [pc |-> "loop", cb |-> None, pkg |-> None]

NoInfo == [kind |-> "none", pkg |-> None]
NoDialog == [open |-> FALSE, cb |-> None, pkg |-> None]

Count(seq, x) == Cardinality({i \in 1..Len(seq) : seq[i] = x})

\* ------------------------------------------------ threads and processes
\* A finished thread is dropped from threads.  A Popen object lives in procs
\* while its child runs or something still refers to it (self.current_process,
\* a thread); a temporary directory keeps its slot while it exists.
Thread(kind, pkg, cmd) ==
    [kind |-> kind, pc |-> "spawn", pkg |-> pkg, cmd |-> cmd, pid |-> NoPid]
Cmd(tool, pkg, dir) == [tool |-> tool, pkg |-> pkg, dir |-> dir]
NoCmd == Cmd(None, None, 0)
Proc(cmd, env_pw) ==
    [cmd |-> cmd, alive |-> TRUE, rc |-> -1, sigint |-> FALSE, written |-> 0,
     env_pw |-> env_pw]
NoProc == [cmd |-> NoCmd, alive |-> FALSE, rc |-> -1, sigint |-> FALSE,
           written |-> 0, env_pw |-> None]
Pids == 1..(2 * MaxTxn)
DirIds == 1..MaxTxn

Dir(state, pkg) == [state |-> state, pkg |-> pkg]
NoDir == Dir("absent", None)
DirExists(d) == d # 0 /\ dirs[d].state # "absent"
HasPkgbuild(d) == d # 0 /\ dirs[d].state = "repo"
Pkgbuild(pkg) == <<"PKGBUILD", pkg>>

Min(S) == CHOOSE x \in S : \A y \in S : x <= y
Threads == 1..Len(threads)
Without(seq, i) == [j \in 1..(Len(seq) - 1) |-> IF j < i THEN seq[j] ELSE seq[j + 1]]

\* tempfile.mkdtemp: a name no existing directory and no running command has
NewDir == Min({d \in DirIds :
                 /\ dirs[d].state = "absent"
                 /\ \A t \in Threads : threads[t].cmd.dir # d
                 /\ \A p \in Pids : procs[p].cmd.dir # d})
\* a new Popen object
NewPid == Min({p \in Pids : procs[p] = NoProc})
\* procs ps once nothing but cp and the threads ths refers to them
Collect(ps, cp, ths) ==
    [p \in Pids |->
        IF ps[p].alive \/ p = cp \/ \E t \in 1..Len(ths) : ths[t].pid = p
        THEN ps[p] ELSE NoProc]

ActiveChildren == {p \in Pids : procs[p].alive}

\* the handler or step that ran last, with the child process it was about
Ev(op, proc) == [op |-> op, proc |-> proc]
ProcOf(pid) == IF pid = NoPid THEN NoProc ELSE procs[pid]

\* a queued GLib.idle_add callback: fn(text) or fn(success, pkg); obs is the
\* child process the completion reports on
Idle(fn, text, success, pkg, obs) ==
    [fn |-> fn, text |-> text, success |-> success, pkg |-> pkg, obs |-> obs]

\* ------------------------------------------------- search state, shared
\* self.search_timer: attr is the attribute, the id of a GLib source or 0 for
\* None; sources are the GLib timeouts still waiting to call
\* trigger_search(query, id), each under its source id sid
NoTimer == [attr |-> 0, sources |-> {}]
\* GLib.timeout_add(400, self.trigger_search, query, id)
Timeout(sid, query, id) == [sid |-> sid, query |-> query, id |-> id]
\* lines 515-517: if self.search_timer: GLib.source_remove(self.search_timer)
source_kept(timer) == timer.sources
source_remove(timer) ==
    IF timer.attr # 0 THEN {s \in timer.sources : s.sid # timer.attr}
    ELSE timer.sources

\* clear_results
clear_results ==
    /\ displayed_count' = 0
    /\ results_listbox' = <<>>

\* search_entry.set_text("") followed by clear_results, as on_process_finished
\* calls them: the entry emits search-changed when its text changes, and
\* on_search_changed then runs with an empty query
SetTextEmpty ==
    /\ search_text' = <<>>
    /\ IF search_text # <<>>
       THEN /\ search_counter' = search_counter + 1
            /\ search_timer' = [attr |-> 0, sources |-> source_remove(search_timer)]
            /\ search_stack' = "welcome"
       ELSE UNCHANGED <<search_counter, search_timer, search_stack>>
    /\ clear_results
    /\ UNCHANGED <<search_in_progress, all_search_results, aur_check, searchers>>

\* ------------------------------------------------------------------- Init
\* what /tmp holds and the umask when the program starts: nothing (first run),
\* the helpers of an earlier session, or files of another user at the fixed
\* paths, which open() or chmod() then refuse
Environments ==
    {[askpass |-> AbsentFile, wrapper |-> AbsentFile, umask |-> u] : u \in Umasks}
    \cup
    {[askpass |-> a, wrapper |-> w, umask |-> 18] :
        a \in {OwnFile(AskpassContent)},
        w \in {OwnFile(WrapperContent), ForeignFile(HelperMode), ForeignFile(CreateMode)}}
    \cup
    {[askpass |-> ForeignFile(m), wrapper |-> ForeignFile(m), umask |-> 18] :
        m \in {HelperMode, CreateMode}}

Init ==
    /\ content_stack \in {"warning_view", "search_view"}
    /\ user_password = None
    /\ process_in_progress = FALSE
    /\ pulse_timer_id = FALSE
    /\ current_package_name = ""
    /\ current_process = NoPid
    /\ action_type = None
    /\ aur_temp_dir = 0
    /\ aur_pkg_name = None
    /\ output_buffer = <<>>
    /\ pkgbuild_buffer = <<>>
    /\ btn_back_sensitive = FALSE
    /\ btn_cancel_visible = TRUE
    /\ revealer_details = FALSE
    /\ lbl_progress_status = "Please wait..."
    /\ info_text = NoInfo
    /\ dialog = NoDialog
    /\ \E e \in Environments :
          /\ askpass_file = e.askpass
          /\ wrapper_file = e.wrapper
          /\ umask = e.umask
    /\ dirs = [d \in DirIds |-> NoDir]
    /\ procs = [p \in Pids |-> NoProc]
    /\ threads = <<>>
    /\ idle_q = <<>>
    /\ main = MainLoop
    /\ ntxn = 0
    /\ last = Ev("init", NoProc)
    /\ search_text = <<>>
    /\ search_timer = NoTimer
    /\ search_counter = 0
    /\ search_in_progress = FALSE
    /\ all_search_results = <<>>
    /\ displayed_count = 0
    /\ results_listbox = <<>>
    /\ search_stack = "welcome"
    /\ aur_check = FALSE
    /\ searchers = <<>>

\* which main-loop events the toolkit can deliver
MainIdle == main.pc = "loop"
CanClick(view) == MainIdle /\ ~dialog.open /\ content_stack = view
CanAccept == ntxn < MaxTxn

\* ------------------------------------------------------- setup_sudo_env
\* the handler that called setup_sudo_env resumes (cb, pkg) after its last call
BeginSetup(cb, pkg) == main' = [pc |-> "askpass_write", cb |-> cb, pkg |-> pkg]

uiVars == <<content_stack, process_in_progress, pulse_timer_id,
    current_package_name, output_buffer, btn_back_sensitive,
    btn_cancel_visible, revealer_details, lbl_progress_status>>

\* with open(self.askpass_script, "w") as f: f.write(...)
setup_askpass_write ==
    /\ main.pc = "askpass_write"
    /\ IF CanOpenWrite(askpass_file)
       THEN /\ askpass_file' = AfterOpenWrite(askpass_file, AskpassContent)
            /\ main' = [main EXCEPT !.pc = "askpass_chmod"]
            /\ last' = Ev("setup_step", NoProc)
       ELSE /\ main' = MainLoop
            /\ last' = Ev("setup_raised", NoProc)
            /\ UNCHANGED askpass_file
    /\ UNCHANGED <<txnVars, wrapper_file, umask, dirs, procs, threads, idle_q,
                   ntxn, searchVars>>

\* os.chmod(self.askpass_script, 0o700)
setup_askpass_chmod ==
    /\ main.pc = "askpass_chmod"
    /\ IF CanChmod(askpass_file)
       THEN /\ askpass_file' = AfterChmod(askpass_file)
            /\ main' = [main EXCEPT !.pc = "wrapper_write"]
            /\ last' = Ev("setup_step", NoProc)
       ELSE /\ main' = MainLoop
            /\ last' = Ev("setup_raised", NoProc)
            /\ UNCHANGED askpass_file
    /\ UNCHANGED <<txnVars, wrapper_file, umask, dirs, procs, threads, idle_q,
                   ntxn, searchVars>>

\* with open(self.sudo_wrapper, "w") as f: f.write(...)
setup_wrapper_write ==
    /\ main.pc = "wrapper_write"
    /\ IF CanOpenWrite(wrapper_file)
       THEN /\ wrapper_file' = AfterOpenWrite(wrapper_file, WrapperContent)
            /\ main' = [main EXCEPT !.pc = "wrapper_chmod"]
            /\ last' = Ev("setup_step", NoProc)
       ELSE /\ main' = MainLoop
            /\ last' = Ev("setup_raised", NoProc)
            /\ UNCHANGED wrapper_file
    /\ UNCHANGED <<txnVars, askpass_file, umask, dirs, procs, threads, idle_q,
                   ntxn, searchVars>>

\* self.btn_back.set_sensitive(False)
BackDisabledForgotten == UNCHANGED btn_back_sensitive
BackDisabled == btn_back_sensitive' = FALSE

\* run_transaction after setup_sudo_env returned
run_transaction_body(package_name) ==
    /\ content_stack' = "progress_view"
    /\ output_buffer' = <<>>
    /\ BackDisabled
    /\ process_in_progress' = TRUE
    /\ current_package_name' = package_name
    /\ revealer_details' = FALSE
    /\ btn_cancel_visible' = TRUE
    /\ pulse_timer_id' = TRUE
    /\ lbl_progress_status' =
          IF action_type = "remove" THEN "Removing package..."
          ELSE "Downloading and installing..."
    /\ threads' = Append(threads,
          Thread("shell", package_name,
                 Cmd(IF action_type = "remove" THEN "pacman -Rns" ELSE "pacman -S",
                     package_name, 0)))
    /\ last' = Ev("run_transaction", NoProc)

\* run_aur_build after setup_sudo_env returned
run_aur_build_body ==
    /\ content_stack' = "progress_view"
    /\ output_buffer' = <<>>
    /\ revealer_details' = FALSE
    /\ lbl_progress_status' = "Compiling package..."
    /\ btn_cancel_visible' = TRUE
    /\ pulse_timer_id' = TRUE
    /\ current_package_name' = aur_pkg_name
    /\ threads' = Append(threads,
          Thread("shell", aur_pkg_name, Cmd("makepkg", aur_pkg_name, aur_temp_dir)))
    /\ last' = Ev("run_aur_build", NoProc)
    /\ UNCHANGED <<btn_back_sensitive, process_in_progress>>

\* os.chmod(self.sudo_wrapper, 0o700), then the rest of the calling handler
setup_wrapper_chmod ==
    /\ main.pc = "wrapper_chmod"
    /\ main' = MainLoop
    /\ IF CanChmod(wrapper_file)
       THEN /\ wrapper_file' = AfterChmod(wrapper_file)
            /\ IF main.cb = "run_aur_build"
               THEN run_aur_build_body
               ELSE run_transaction_body(main.pkg)
       ELSE /\ last' = Ev("setup_raised", NoProc)
            /\ UNCHANGED <<wrapper_file, threads, uiVars>>
    /\ UNCHANGED <<user_password, current_process, action_type, aur_temp_dir,
                   aur_pkg_name, pkgbuild_buffer, info_text, dialog,
                   askpass_file, umask, dirs, procs, idle_q, ntxn, searchVars>>

\* ------------------------------------------------------ intents, prompts
on_warning_continue ==
    /\ CanClick("warning_view")
    /\ content_stack' = "search_view"
    /\ last' = Ev("on_warning_continue", NoProc)
    /\ UNCHANGED <<user_password, process_in_progress, pulse_timer_id,
                   current_package_name, current_process, action_type,
                   aur_temp_dir, aur_pkg_name, output_buffer, pkgbuild_buffer,
                   btn_back_sensitive, btn_cancel_visible, revealer_details,
                   lbl_progress_status, info_text, dialog,
                   envVars, idle_q, main, ntxn, searchVars>>

\* prompt_for_password(callback_success): presents the modal dialog
prompt_for_password(cb, pkg) ==
    dialog' = [open |-> TRUE, cb |-> cb, pkg |-> pkg]

\* start_aur_review_process
start_aur_review_process(package_name) ==
    /\ dirs' = [dirs EXCEPT ![NewDir] = Dir("empty", None)]
    /\ aur_temp_dir' = NewDir
    /\ aur_pkg_name' = package_name
    /\ current_package_name' = package_name
    /\ content_stack' = "progress_view"
    /\ output_buffer' = <<FetchingNote(package_name)>>
    /\ BackDisabled
    /\ btn_cancel_visible' = TRUE
    /\ lbl_progress_status' = "Cloning repository..."
    /\ threads' = Append(threads, Thread("clone", package_name, NoCmd))

initiate_install_prompting(name, is_aur) ==
    /\ CanClick("search_view")
    /\ CanAccept
    /\ ntxn' = ntxn + 1
    /\ action_type' = "install"
    /\ last' = Ev("initiate_install", NoProc)
    /\ IF is_aur /\ user_password = None
       THEN /\ prompt_for_password("run_aur_build", name)
            /\ UNCHANGED <<main, dirs, aur_temp_dir, aur_pkg_name,
                           current_package_name, content_stack, output_buffer,
                           btn_back_sensitive, btn_cancel_visible,
                           lbl_progress_status, threads>>
       ELSE IF is_aur
       THEN /\ start_aur_review_process(name)
            /\ UNCHANGED <<dialog, main>>
       ELSE /\ IF user_password = None
               THEN prompt_for_password("run_transaction", name) /\ UNCHANGED main
               ELSE BeginSetup("run_transaction", name) /\ UNCHANGED dialog
            /\ UNCHANGED <<dirs, aur_temp_dir, aur_pkg_name, current_package_name,
                           content_stack, output_buffer, btn_back_sensitive,
                           btn_cancel_visible, lbl_progress_status, threads>>
    /\ UNCHANGED <<user_password, process_in_progress, pulse_timer_id,
                   current_process, pkgbuild_buffer, revealer_details, info_text,
                   askpass_file, wrapper_file, umask, procs, idle_q, searchVars>>

\* initiate_install(pkg), the Install button of a result row
initiate_install(name, is_aur) ==
    /\ CanClick("search_view")
    /\ CanAccept
    /\ ntxn' = ntxn + 1
    /\ action_type' = "install"
    /\ last' = Ev("initiate_install", NoProc)
    /\ IF is_aur
       THEN /\ start_aur_review_process(name)
            /\ UNCHANGED <<dialog, main>>
       ELSE /\ IF user_password = None
               THEN prompt_for_password("run_transaction", name) /\ UNCHANGED main
               ELSE BeginSetup("run_transaction", name) /\ UNCHANGED dialog
            /\ UNCHANGED <<dirs, aur_temp_dir, aur_pkg_name, current_package_name,
                           content_stack, output_buffer, btn_back_sensitive,
                           btn_cancel_visible, lbl_progress_status, threads>>
    /\ UNCHANGED <<user_password, process_in_progress, pulse_timer_id,
                   current_process, pkgbuild_buffer, revealer_details, info_text,
                   askpass_file, wrapper_file, umask, procs, idle_q, searchVars>>

initiate_remove_prompting(package_name) ==
    /\ CanClick("search_view")
    /\ CanAccept
    /\ ntxn' = ntxn + 1
    /\ action_type' = "remove"
    /\ last' = Ev("initiate_remove", NoProc)
    /\ prompt_for_password("run_transaction", package_name)
    /\ UNCHANGED main
    /\ UNCHANGED <<content_stack, user_password, process_in_progress,
                   pulse_timer_id, current_package_name, current_process,
                   aur_temp_dir, aur_pkg_name, output_buffer, pkgbuild_buffer,
                   btn_back_sensitive, btn_cancel_visible, revealer_details,
                   lbl_progress_status, info_text,
                   envVars, idle_q, searchVars>>

\* initiate_remove(package_name), the Remove button of a result row
initiate_remove(package_name) ==
    /\ CanClick("search_view")
    /\ CanAccept
    /\ ntxn' = ntxn + 1
    /\ action_type' = "remove"
    /\ last' = Ev("initiate_remove", NoProc)
    /\ IF user_password = None
       THEN prompt_for_password("run_transaction", package_name) /\ UNCHANGED main
       ELSE BeginSetup("run_transaction", package_name) /\ UNCHANGED dialog
    /\ UNCHANGED <<content_stack, user_password, process_in_progress,
                   pulse_timer_id, current_package_name, current_process,
                   aur_temp_dir, aur_pkg_name, output_buffer, pkgbuild_buffer,
                   btn_back_sensitive, btn_cancel_visible, revealer_details,
                   lbl_progress_status, info_text,
                   envVars, idle_q, searchVars>>

\* on_response: if response == "unlock": pwd = entry.get_text(); if pwd: ...
UnlocksAnyText(response, pwd) == response = "unlock"
Unlocks(response, pwd) == response = "unlock" /\ pwd # ""

\* prompt_for_password.on_response; the dialog closes after any response
on_response(response, pwd) ==
    /\ MainIdle
    /\ dialog.open
    /\ dialog' = NoDialog
    /\ IF Unlocks(response, pwd)
       THEN /\ user_password' = pwd
            /\ BeginSetup(dialog.cb, dialog.pkg)
            /\ last' = Ev("on_response_unlock", NoProc)
       ELSE /\ last' = Ev("on_response_cancel", NoProc)
            /\ UNCHANGED <<user_password, main>>
    /\ UNCHANGED <<content_stack, process_in_progress, pulse_timer_id,
                   current_package_name, current_process, action_type,
                   aur_temp_dir, aur_pkg_name, output_buffer, pkgbuild_buffer,
                   btn_back_sensitive, btn_cancel_visible, revealer_details,
                   lbl_progress_status, info_text,
                   envVars, idle_q, ntxn, searchVars>>

\* ------------------------------------------------------------ AUR review
rmtree(d) == dirs' = [dirs EXCEPT ![d] = NoDir]

CleanupSkipped == UNCHANGED dirs
CleanupOnlyOnSuccess ==
    IF DirExists(aur_temp_dir) /\ Head(idle_q).success
    THEN rmtree(aur_temp_dir) ELSE UNCHANGED dirs

\* on_pkgbuild_cancel: if hasattr(self, 'aur_temp_dir') and os.path.exists(...)
CancelCleanup ==
    IF DirExists(aur_temp_dir) THEN rmtree(aur_temp_dir) ELSE UNCHANGED dirs

\* on_process_finished: the same test and removal, whatever the outcome
FinishedCleanup ==
    IF DirExists(aur_temp_dir) THEN rmtree(aur_temp_dir) ELSE UNCHANGED dirs

on_pkgbuild_cancel ==
    /\ CanClick("pkgbuild_view")
    /\ CancelCleanup
    /\ content_stack' = "search_view"
    /\ last' = Ev("on_pkgbuild_cancel", NoProc)
    /\ UNCHANGED <<user_password, process_in_progress, pulse_timer_id,
                   current_package_name, current_process, action_type,
                   aur_temp_dir, aur_pkg_name, output_buffer, pkgbuild_buffer,
                   btn_back_sensitive, btn_cancel_visible, revealer_details,
                   lbl_progress_status, info_text, dialog,
                   askpass_file, wrapper_file, umask, procs, threads,
                   idle_q, main, ntxn, searchVars>>

on_pkgbuild_proceed ==
    /\ CanClick("pkgbuild_view")
    /\ IF user_password = None
       THEN prompt_for_password("run_aur_build", None) /\ UNCHANGED main
       ELSE BeginSetup("run_aur_build", None) /\ UNCHANGED dialog
    /\ last' = Ev("on_pkgbuild_proceed", NoProc)
    /\ UNCHANGED <<content_stack, user_password, process_in_progress,
                   pulse_timer_id, current_package_name, current_process,
                   action_type, aur_temp_dir, aur_pkg_name, output_buffer,
                   pkgbuild_buffer, btn_back_sensitive, btn_cancel_visible,
                   revealer_details, lbl_progress_status, info_text,
                   envVars, idle_q, ntxn, searchVars>>

\* ------------------------------------------------- progress and info views
\* Popen.send_signal polls first and signals only a child that still runs
send_sigint(p) ==
    procs' = IF procs[p].alive THEN [procs EXCEPT ![p].sigint = TRUE] ELSE procs

on_cancel_clicked ==
    /\ CanClick("progress_view")
    /\ btn_cancel_visible
    /\ current_process # NoPid => Count(output_buffer, CancelNote) < MaxCancel
    /\ IF current_process # NoPid
       THEN /\ output_buffer' = Append(output_buffer, CancelNote)
            /\ send_sigint(current_process)
       ELSE UNCHANGED <<output_buffer, procs>>
    /\ last' = Ev("on_cancel_clicked", NoProc)
    /\ UNCHANGED <<content_stack, user_password, process_in_progress,
                   pulse_timer_id, current_package_name, current_process,
                   action_type, aur_temp_dir, aur_pkg_name, pkgbuild_buffer,
                   btn_back_sensitive, btn_cancel_visible, revealer_details,
                   lbl_progress_status, info_text, dialog,
                   askpass_file, wrapper_file, umask, dirs, threads,
                   idle_q, main, ntxn, searchVars>>

\* btn_back of the progress view, or "Search Again" of the info view
on_back_clicked ==
    /\ \/ CanClick("progress_view") /\ btn_back_sensitive
       \/ CanClick("info_view")
    /\ content_stack' = "search_view"
    /\ last' = Ev("on_back_clicked", NoProc)
    /\ UNCHANGED <<user_password, process_in_progress, pulse_timer_id,
                   current_package_name, current_process, action_type,
                   aur_temp_dir, aur_pkg_name, output_buffer, pkgbuild_buffer,
                   btn_back_sensitive, btn_cancel_visible, revealer_details,
                   lbl_progress_status, info_text, dialog,
                   envVars, idle_q, main, ntxn, searchVars>>

on_view_log_clicked ==
    /\ CanClick("info_view")
    /\ content_stack' = "progress_view"
    /\ revealer_details' = TRUE
    /\ lbl_progress_status' = "Transaction Log"
    /\ btn_back_sensitive' = TRUE
    /\ btn_cancel_visible' = FALSE
    /\ last' = Ev("on_view_log_clicked", NoProc)
    /\ UNCHANGED <<user_password, process_in_progress, pulse_timer_id,
                   current_package_name, current_process, action_type,
                   aur_temp_dir, aur_pkg_name, output_buffer, pkgbuild_buffer,
                   info_text, dialog,
                   envVars, idle_q, main, ntxn, searchVars>>

\* -------------------------------------------------------- idle callbacks
NextIdle(fn) == MainIdle /\ idle_q # <<>> /\ Head(idle_q).fn = fn

\* (an append_log that inserts at get_start_iter)
append_log_at_start ==
    /\ NextIdle("append_log")
    /\ output_buffer' = <<Head(idle_q).text>> \o output_buffer
    /\ idle_q' = Tail(idle_q)
    /\ last' = Ev("append_log", NoProc)
    /\ UNCHANGED <<content_stack, user_password, process_in_progress,
                   pulse_timer_id, current_package_name, current_process,
                   action_type, aur_temp_dir, aur_pkg_name, pkgbuild_buffer,
                   btn_back_sensitive, btn_cancel_visible, revealer_details,
                   lbl_progress_status, info_text, dialog,
                   envVars, main, ntxn, searchVars>>

append_log ==
    /\ NextIdle("append_log")
    /\ output_buffer' = Append(output_buffer, Head(idle_q).text)
    /\ idle_q' = Tail(idle_q)
    /\ last' = Ev("append_log", NoProc)
    /\ UNCHANGED <<content_stack, user_password, process_in_progress,
                   pulse_timer_id, current_package_name, current_process,
                   action_type, aur_temp_dir, aur_pkg_name, pkgbuild_buffer,
                   btn_back_sensitive, btn_cancel_visible, revealer_details,
                   lbl_progress_status, info_text, dialog,
                   envVars, main, ntxn, searchVars>>

on_process_finished ==
    /\ NextIdle("on_process_finished")
    /\ idle_q' = Tail(idle_q)
    /\ process_in_progress' = FALSE
    /\ current_process' = NoPid
    /\ procs' = Collect(procs, NoPid, threads)
    /\ pulse_timer_id' = FALSE
    /\ FinishedCleanup
    /\ IF Head(idle_q).success
       THEN /\ info_text' = [kind |-> IF action_type = "remove" THEN "removed"
                                      ELSE "installed",
                             pkg |-> Head(idle_q).pkg]
            /\ content_stack' = "info_view"
            /\ SetTextEmpty
            /\ UNCHANGED <<revealer_details, lbl_progress_status,
                           btn_back_sensitive, btn_cancel_visible, output_buffer>>
       ELSE /\ revealer_details' = TRUE
            /\ lbl_progress_status' = "Failed or Cancelled."
            /\ btn_back_sensitive' = TRUE
            /\ btn_cancel_visible' = FALSE
            /\ output_buffer' = Append(output_buffer, FailedNote)
            /\ UNCHANGED <<info_text, content_stack, searchVars>>
    /\ last' = Ev("on_process_finished", Head(idle_q).obs)
    /\ UNCHANGED <<user_password, current_package_name, action_type,
                   aur_temp_dir, aur_pkg_name, pkgbuild_buffer, dialog,
                   askpass_file, wrapper_file, umask, threads,
                   main, ntxn>>

show_pkgbuild_content ==
    /\ NextIdle("show_pkgbuild_content")
    /\ idle_q' = Tail(idle_q)
    /\ pkgbuild_buffer' = Pkgbuild(Head(idle_q).pkg)
    /\ content_stack' = "pkgbuild_view"
    /\ current_process' = NoPid
    /\ procs' = Collect(procs, NoPid, threads)
    /\ last' = Ev("show_pkgbuild_content", NoProc)
    /\ UNCHANGED <<user_password, process_in_progress, pulse_timer_id,
                   current_package_name, action_type, aur_temp_dir, aur_pkg_name,
                   output_buffer, btn_back_sensitive, btn_cancel_visible,
                   revealer_details, lbl_progress_status, info_text, dialog,
                   askpass_file, wrapper_file, umask, dirs, threads,
                   main, ntxn, searchVars>>

show_aur_error ==
    /\ NextIdle("show_aur_error")
    /\ idle_q' = Tail(idle_q)
    /\ output_buffer' = <<Head(idle_q).text>>
    /\ btn_back_sensitive' = TRUE
    /\ btn_cancel_visible' = FALSE
    /\ last' = Ev("show_aur_error", NoProc)
    /\ UNCHANGED <<content_stack, user_password, process_in_progress,
                   pulse_timer_id, current_package_name, current_process,
                   action_type, aur_temp_dir, aur_pkg_name, pkgbuild_buffer,
                   revealer_details, lbl_progress_status, info_text, dialog,
                   envVars, main, ntxn, searchVars>>

\* ------------------------------------------------------- worker threads
frameThread == <<content_stack, user_password, process_in_progress,
    pulse_timer_id, current_package_name, action_type, aur_temp_dir,
    aur_pkg_name, output_buffer, pkgbuild_buffer, btn_back_sensitive,
    btn_cancel_visible, revealer_details, lbl_progress_status, info_text,
    dialog, askpass_file, wrapper_file, umask, main, ntxn, searchVars>>

\* execute_shell: success = (rc == 0)
ShellSuccessUnlessPositive(rc) == rc <= 0
ShellSuccess(rc) == rc = 0

\* execute_shell: the credential reaches the child in its environment
ShellEnv == IF user_password # None /\ user_password # "" THEN user_password ELSE None

\* (a clone_task that takes the clone for good without looking at it)
CloneOutcomeUnchecked(pkg) ==
    IF current_process = NoPid
    THEN Idle("show_aur_error", ErrorNote, FALSE, pkg, NoProc)
    ELSE Idle("show_pkgbuild_content", NoEntry, TRUE, pkg, NoProc)

\* what clone_task queues once wait() returned: returncode and the PKGBUILD
\* are read through self.current_process and self.aur_temp_dir
CloneOutcome(pkg) ==
    IF current_process = NoPid
    THEN Idle("show_aur_error", ErrorNote, FALSE, pkg, NoProc)
    ELSE IF procs[current_process].rc = 0
    THEN IF HasPkgbuild(aur_temp_dir)
         THEN Idle("show_pkgbuild_content", NoEntry, TRUE, dirs[aur_temp_dir].pkg, NoProc)
         ELSE Idle("show_aur_error", Entry("no_pkgbuild", "", 0), FALSE, pkg, NoProc)
    ELSE Idle("show_aur_error", Entry("clone_failed", "", 0), FALSE, pkg, NoProc)

\* clone_task up to Popen; self.current_process is assigned by the thread
clone_spawn(t) ==
    /\ threads[t].kind = "clone" /\ threads[t].pc = "spawn"
    /\ \/ /\ threads' = [threads EXCEPT ![t].pc = "wait", ![t].pid = NewPid]
          /\ current_process' = NewPid
          /\ procs' = Collect(
                 [procs EXCEPT ![NewPid] =
                     Proc(Cmd("git clone", threads[t].pkg, aur_temp_dir), None)],
                 NewPid, threads')
          /\ UNCHANGED idle_q
       \/ /\ idle_q' = Append(idle_q,
                 Idle("show_aur_error", ErrorNote, FALSE, threads[t].pkg, NoProc))
          /\ threads' = Without(threads, t)
          /\ UNCHANGED <<procs, current_process>>
    /\ last' = Ev("clone_spawn", NoProc)
    /\ UNCHANGED <<frameThread, dirs>>

\* clone_task after wait() returned
clone_wait(t) ==
    /\ threads[t].kind = "clone" /\ threads[t].pc = "wait"
    /\ ~procs[threads[t].pid].alive
    /\ threads' = Without(threads, t)
    /\ idle_q' = Append(idle_q, CloneOutcome(threads[t].pkg))
    /\ procs' = Collect(procs, current_process, threads')
    /\ last' = Ev("clone_wait", NoProc)
    /\ UNCHANGED <<frameThread, dirs, current_process>>

\* execute_shell up to Popen
shell_spawn_failing_silently(t) ==
    /\ threads[t].kind = "shell" /\ threads[t].pc = "spawn"
    /\ \/ /\ threads' = [threads EXCEPT ![t].pc = "read", ![t].pid = NewPid]
          /\ current_process' = NewPid
          /\ procs' = Collect(
                 [procs EXCEPT ![NewPid] = Proc(threads[t].cmd, ShellEnv)],
                 NewPid, threads')
          /\ UNCHANGED idle_q
       \/ /\ idle_q' = Append(idle_q,
                 Idle("append_log", ErrorNote, FALSE, threads[t].pkg, NoProc))
          /\ threads' = Without(threads, t)
          /\ UNCHANGED <<procs, current_process>>
    /\ last' = Ev("shell_spawn", NoProc)
    /\ UNCHANGED <<frameThread, dirs>>

shell_spawn(t) ==
    /\ threads[t].kind = "shell" /\ threads[t].pc = "spawn"
    /\ \/ /\ threads' = [threads EXCEPT ![t].pc = "read", ![t].pid = NewPid]
          /\ current_process' = NewPid
          /\ procs' = Collect(
                 [procs EXCEPT ![NewPid] = Proc(threads[t].cmd, ShellEnv)],
                 NewPid, threads')
          /\ UNCHANGED idle_q
       \/ /\ idle_q' = idle_q \o
                 << Idle("append_log", ErrorNote, FALSE, threads[t].pkg, NoProc),
                    Idle("on_process_finished", NoEntry, FALSE, threads[t].pkg,
                         [NoProc EXCEPT !.cmd = threads[t].cmd]) >>
          /\ threads' = Without(threads, t)
          /\ UNCHANGED <<procs, current_process>>
    /\ last' = Ev("shell_spawn", NoProc)
    /\ UNCHANGED <<frameThread, dirs>>

\* execute_shell: one line read from the child and queued for append_log
shell_read(t) ==
    /\ threads[t].kind = "shell" /\ threads[t].pc = "read"
    /\ procs[threads[t].pid].alive
    /\ procs[threads[t].pid].written < MaxLines
    /\ procs' = [procs EXCEPT ![threads[t].pid].written = @ + 1]
    /\ idle_q' = Append(idle_q,
          Idle("append_log", Line(threads[t].pid, procs[threads[t].pid].written + 1),
               FALSE, threads[t].pkg, NoProc))
    /\ last' = Ev("shell_read", NoProc)
    /\ UNCHANGED <<frameThread, dirs, threads, current_process>>

\* execute_shell at end of output: stdout.close(), wait(), then the completion
\* is queued; both calls go through self.current_process
shell_eof(t) ==
    /\ threads[t].kind = "shell" /\ threads[t].pc = "read"
    /\ ~procs[threads[t].pid].alive
    /\ current_process # NoPid => ~procs[current_process].alive
    /\ threads' = Without(threads, t)
    /\ idle_q' =
          IF current_process = NoPid
          THEN idle_q \o
                 << Idle("append_log", ErrorNote, FALSE, threads[t].pkg, NoProc),
                    Idle("on_process_finished", NoEntry, FALSE, threads[t].pkg,
                         procs[threads[t].pid]) >>
          ELSE Append(idle_q,
                 Idle("on_process_finished", NoEntry,
                      ShellSuccess(procs[current_process].rc),
                      threads[t].pkg, procs[threads[t].pid]))
    /\ procs' = Collect(procs, current_process, threads')
    /\ last' = Ev("shell_eof", NoProc)
    /\ UNCHANGED <<frameThread, dirs, current_process>>

\* clone_task gives git a pipe for stdout and stderr and calls wait()
\* without reading it: what git writes stays in the pipe, and the write that
\* does not fit any more does not return
Blocked(p) == procs[p].cmd.tool = "git clone" /\ procs[p].written > PipeCapacity
git_write(p) ==
    /\ procs[p].alive
    /\ procs[p].cmd.tool = "git clone"
    /\ ~Blocked(p)
    /\ procs' = [procs EXCEPT ![p].written = @ + 1]
    /\ last' = Ev("git_write", NoProc)
    /\ UNCHANGED <<frameThread, dirs, threads, idle_q, current_process>>

\* the child process ends; git fills the directory it cloned into, and the
\* build command cannot succeed without the cloned recipe; a child blocked in
\* a write ends by a signal only
child_exit(p, rc, has_pkgbuild) ==
    /\ procs[p].alive
    /\ rc = -2 => procs[p].sigint
    /\ Blocked(p) => rc = -2
    /\ procs[p].cmd.tool = "makepkg" /\ rc = 0 => HasPkgbuild(procs[p].cmd.dir)
    /\ procs[p].cmd.tool # "git clone" \/ rc # 0 => has_pkgbuild
    /\ procs' = Collect([procs EXCEPT ![p].alive = FALSE, ![p].rc = rc],
                        current_process, threads)
    /\ dirs' = IF procs[p].cmd.tool = "git clone" /\ rc = 0 /\ DirExists(procs[p].cmd.dir)
               THEN [dirs EXCEPT ![procs[p].cmd.dir] =
                        Dir(IF has_pkgbuild THEN "repo" ELSE "repo_nopkgbuild",
                            procs[p].cmd.pkg)]
               ELSE dirs
    /\ last' = Ev("child_exit", NoProc)
    /\ UNCHANGED <<frameThread, threads, idle_q, current_process>>

\* ----------------------------------------------------------------- search
\* what the operator can have typed into the search entry
Texts == {<<>>, <<"v", "i">>, <<" ", "v", " ">>, <<"v", "i", "m">>}

RECURSIVE LStrip(_)
LStrip(str) == IF str # <<>> /\ Head(str) = " " THEN LStrip(Tail(str)) ELSE str
RECURSIVE RStrip(_)
RStrip(str) ==
    IF str # <<>> /\ str[Len(str)] = " " THEN RStrip(SubSeq(str, 1, Len(str) - 1))
    ELSE str
\* str.strip()
Strip(str) == RStrip(LStrip(str))

\* asked_aur observes the check button at the time trigger_search starts the
\* worker; the code keeps no such value
Searcher(query, id) ==
    [pc |-> "start", query |-> query, id |-> id, results |-> <<>>,
     asked_aur |-> aur_check]
Searchers == 1..Len(searchers)
\* the records one lookup of search id returns
Records(id, repo, n) == [k \in 1..n |-> [sid |-> id, repo |-> repo, k |-> k]]

frameSearch == <<txnVars, envVars, main, ntxn>>

on_search_changed(text) ==
    /\ CanClick("search_view")
    /\ text # search_text
    /\ search_counter < MaxSearches
    /\ search_text' = text
    /\ search_counter' = search_counter + 1
    /\ IF Len(Strip(text)) < 2
       THEN /\ clear_results
            /\ search_stack' = "welcome"
            /\ search_timer' = [attr |-> 0, sources |-> source_remove(search_timer)]
       ELSE /\ search_timer' =
                   [attr |-> search_counter + 1,
                    sources |-> source_remove(search_timer) \cup
                        {Timeout(search_counter + 1, Strip(text), search_counter + 1)}]
            /\ UNCHANGED <<displayed_count, results_listbox, search_stack>>
    /\ last' = Ev("on_search_changed", NoProc)
    /\ UNCHANGED <<frameSearch, idle_q, search_in_progress, all_search_results,
                   aur_check, searchers>>

\* the debounce timeout fires; returning False removes the source, the
\* attribute keeps the id
trigger_search(timeout) ==
    /\ MainIdle
    /\ timeout \in search_timer.sources
    /\ search_stack' = "loading"
    /\ search_in_progress' = TRUE
    /\ all_search_results' = <<>>
    /\ displayed_count' = 0
    /\ searchers' = Append(searchers, Searcher(timeout.query, timeout.id))
    /\ search_timer' = [search_timer EXCEPT !.sources = @ \ {timeout}]
    /\ last' = Ev("trigger_search", NoProc)
    /\ UNCHANGED <<frameSearch, idle_q, search_text, search_counter,
                   results_listbox, aur_check>>

\* load_more_results on a list box holding rows, count of them counted
load_more_results(rows, count) ==
    LET total == Len(all_search_results)
        end_idx == IF count + batch_size < total THEN count + batch_size ELSE total
    IN  IF count >= total
        THEN /\ displayed_count' = count
             /\ results_listbox' = rows
        ELSE /\ results_listbox' = rows \o SubSeq(all_search_results, count + 1, end_idx)
             /\ displayed_count' = end_idx

\* update_results_initial: clear_results, then the first batch
update_results_initial ==
    /\ NextIdle("update_results_initial")
    /\ idle_q' = Tail(idle_q)
    /\ search_in_progress' = FALSE
    /\ IF all_search_results = <<>>
       THEN /\ clear_results
            /\ search_stack' = "no_results"
       ELSE /\ search_stack' = "results"
            /\ load_more_results(<<>>, 0)
    /\ last' = Ev("update_results_initial", NoProc)
    /\ UNCHANGED <<frameSearch, search_text, search_timer, search_counter,
                   all_search_results, aur_check, searchers>>

on_scroll_edge_reached ==
    /\ CanClick("search_view")
    /\ search_stack = "results"
    /\ load_more_results(results_listbox, displayed_count)
    /\ last' = Ev("on_scroll_edge_reached", NoProc)
    /\ UNCHANGED <<frameSearch, idle_q, search_text, search_timer, search_counter,
                   search_in_progress, all_search_results, search_stack,
                   aur_check, searchers>>

\* the operator toggles the "Search AUR" check button
toggle_aur_check ==
    /\ CanClick("search_view")
    /\ aur_check' = ~aur_check
    /\ last' = Ev("toggle_aur_check", NoProc)
    /\ UNCHANGED <<frameSearch, idle_q, search_text, search_timer, search_counter,
                   search_in_progress, all_search_results, displayed_count,
                   results_listbox, search_stack, searchers>>

frameSearcher == <<frameSearch, search_text, search_timer, search_counter,
    search_in_progress, displayed_count, results_listbox, search_stack, aur_check>>

\* perform_search, line 544
search_start(t) ==
    /\ searchers[t].pc = "start"
    /\ searchers' = IF searchers[t].id # search_counter THEN Without(searchers, t)
                    ELSE [searchers EXCEPT ![t].pc = "local"]
    /\ last' = Ev("search_start", NoProc)
    /\ UNCHANGED <<frameSearcher, idle_q, all_search_results>>

\* pacman -Ss returned: the check of line 551, then n parsed records
search_local(t, n) ==
    /\ searchers[t].pc = "local"
    /\ searchers' =
          IF searchers[t].id # search_counter THEN Without(searchers, t)
          ELSE [searchers EXCEPT ![t].pc = "aur",
                                 ![t].results = Records(searchers[t].id, "repo", n)]
    /\ last' = Ev("search_local", NoProc)
    /\ UNCHANGED <<frameSearcher, idle_q, all_search_results>>

\* line 581: the check button is read when the worker gets there
search_aur_read(t) ==
    /\ searchers[t].pc = "aur"
    /\ searchers' = [searchers EXCEPT ![t].pc = IF aur_check THEN "request" ELSE "check"]
    /\ last' = Ev("search_aur_read", NoProc)
    /\ UNCHANGED <<frameSearcher, idle_q, all_search_results>>

\* the AUR request ends: it failed (ok = FALSE), or the check of line 587 and
\* then n records whose name contains the query
search_aur_done_prepending(t, ok, n) ==
    /\ searchers[t].pc = "request"
    /\ ~ok => n = 0
    /\ searchers' =
          IF ok /\ searchers[t].id # search_counter THEN Without(searchers, t)
          ELSE [searchers EXCEPT ![t].pc = "check",
                                 ![t].results = Records(searchers[t].id, "AUR", n) \o @]
    /\ last' = Ev(IF ok THEN "search_aur_done" ELSE "search_aur_failed", NoProc)
    /\ UNCHANGED <<frameSearcher, idle_q, all_search_results>>

search_aur_done_or_die(t, ok, n) ==
    /\ searchers[t].pc = "request"
    /\ ~ok => n = 0
    /\ searchers' =
          IF ~ok \/ searchers[t].id # search_counter THEN Without(searchers, t)
          ELSE [searchers EXCEPT ![t].pc = "check",
                                 ![t].results = @ \o Records(searchers[t].id, "AUR", n)]
    /\ last' = Ev(IF ok THEN "search_aur_done" ELSE "search_aur_failed", NoProc)
    /\ UNCHANGED <<frameSearcher, idle_q, all_search_results>>

search_aur_done(t, ok, n) ==
    /\ searchers[t].pc = "request"
    /\ ~ok => n = 0
    /\ searchers' =
          IF ok /\ searchers[t].id # search_counter THEN Without(searchers, t)
          ELSE [searchers EXCEPT ![t].pc = "check",
                                 ![t].results = @ \o Records(searchers[t].id, "AUR", n)]
    /\ last' = Ev(IF ok THEN "search_aur_done" ELSE "search_aur_failed", NoProc)
    /\ UNCHANGED <<frameSearcher, idle_q, all_search_results>>

\* line 603
search_check(t) ==
    /\ searchers[t].pc = "check"
    /\ searchers' = IF searchers[t].id = search_counter
                    THEN [searchers EXCEPT ![t].pc = "write"]
                    ELSE Without(searchers, t)
    /\ last' = Ev("search_check", NoProc)
    /\ UNCHANGED <<frameSearcher, idle_q, all_search_results>>

\* line 604: the worker thread assigns self.all_search_results
search_write(t) ==
    /\ searchers[t].pc = "write"
    /\ all_search_results' = searchers[t].results
    /\ searchers' = [searchers EXCEPT ![t].pc = "post"]
    /\ last' = Ev("search_write", NoProc)
    /\ UNCHANGED <<frameSearcher, idle_q>>

\* line 605
search_post(t) ==
    /\ searchers[t].pc = "post"
    /\ idle_q' = Append(idle_q,
          Idle("update_results_initial", NoEntry, FALSE, None, NoProc))
    /\ searchers' = Without(searchers, t)
    /\ last' = Ev("search_post", NoProc)
    /\ UNCHANGED <<frameSearcher, all_search_results>>

NextSearch ==
    \/ on_warning_continue
    \/ \E text \in Texts : on_search_changed(text)
    \/ \E timeout \in search_timer.sources : trigger_search(timeout)
    \/ update_results_initial
    \/ on_scroll_edge_reached
    \/ toggle_aur_check
    \/ \E t \in Searchers : search_start(t)
    \/ \E t \in Searchers, n \in 0..MaxResults : search_local(t, n)
    \/ \E t \in Searchers : search_aur_read(t)
    \/ \E t \in Searchers, ok \in BOOLEAN, n \in 0..MaxResults : search_aur_done(t, ok, n)
    \/ \E t \in Searchers : search_check(t)
    \/ \E t \in Searchers : search_write(t)
    \/ \E t \in Searchers : search_post(t)

SearchSpec == Init /\ [][NextSearch]_vars

\* ------------------------------------------- perform_search: local parse
\* One line of the output of pacman -Ss: lead spaces, the words between
\* single spaces, trail spaces.  A description line starts with four spaces.
TextLine(lead, words, trail) == [lead |-> lead, words |-> words, trail |-> trail]
BlankLine == TextLine(0, <<>>, 0)
HeaderRepo == TextLine(0, <<"extra/vim", "9.1">>, 0)
HeaderInstalled == TextLine(0, <<"vim-runtime", "9.1", "[installed]">>, 0)
DescLine == TextLine(4, <<"editor">>, 1)
NoVersionLine == TextLine(0, <<"warning:">>, 0)
OutputLines == {HeaderRepo, HeaderInstalled, DescLine, NoVersionLine, BlankLine}

RECURSIVE SeqsUpTo(_, _)
SeqsUpTo(S, n) ==
    IF n = 0 THEN {<<>>}
    ELSE SeqsUpTo(S, n - 1) \cup
         {Append(q, x) : q \in {r \in SeqsUpTo(S, n - 1) : Len(r) = n - 1}, x \in S}
\* what split('\n') makes of a text: at least one line
Outputs == SeqsUpTo(OutputLines, MaxOut) \ {<<>>}

Blank(line) == line.words = <<>>
RECURSIVE DropBlankHead(_)
DropBlankHead(ls) == IF ls # <<>> /\ Blank(Head(ls)) THEN DropBlankHead(Tail(ls)) ELSE ls
RECURSIVE DropBlankTail(_)
DropBlankTail(ls) ==
    IF ls # <<>> /\ Blank(ls[Len(ls)]) THEN DropBlankTail(SubSeq(ls, 1, Len(ls) - 1))
    ELSE ls
\* process.stdout.strip().split('\n'): the text loses the white space at both
\* ends, so the first line loses its indentation and the last its trail
StripSplit(out) ==
    LET ls == DropBlankTail(DropBlankHead(out))
    IN  IF ls = <<>> THEN <<BlankLine>>
        ELSE [k \in 1..Len(ls) |->
                [ls[k] EXCEPT !.lead = IF k = 1 THEN 0 ELSE @,
                              !.trail = IF k = Len(ls) THEN 0 ELSE @]]
\* bool(process.stdout)
NonEmptyText(out) == out # <<BlankLine>>

\* line.strip()
StripLine(line) == TextLine(0, line.words, 0)
\* line.startswith('    ')
Indented(line) == line.lead >= 4
\* line.split(' ') of a line that is not indented
Parts(line) ==
    [k \in 1..line.lead |-> ""] \o
    (IF line.words = <<>> /\ line.lead = 0 THEN <<"">> ELSE line.words) \o
    [k \in 1..line.trail |-> ""]
\* full_name.split('/')
SplitSlash(w) == IF w = "extra/vim" THEN <<"extra", "vim">> ELSE <<w>>
\* the dict of lines 568-573
Pkg(line) ==
    LET parts == Parts(line)
        full == SplitSlash(parts[1])
    IN  [name |-> IF Len(full) = 2 THEN full[2] ELSE parts[1],
         repo |-> IF Len(full) = 2 THEN full[1] ELSE "local",
         version |-> parts[2],
         installed |-> \E k \in 1..Len(line.words) : line.words[k] = "[installed]",
         desc |-> BlankLine,
         is_aur |-> FALSE]
\* current_pkg = None
NoPkg == [name |-> None, repo |-> None, version |-> None, installed |-> FALSE,
          desc |-> BlankLine, is_aur |-> FALSE]
\* if current_pkg: results.append(current_pkg)
FlushOnlyDescribed(results, current_pkg) ==
    IF current_pkg # NoPkg /\ current_pkg.desc # BlankLine
    THEN Append(results, current_pkg) ELSE results
Flush(results, current_pkg) ==
    IF current_pkg # NoPkg THEN Append(results, current_pkg) ELSE results

\* the worker after subprocess.run returned with rc and the text out
Parser(out, rc) ==
    [pc |-> "ran", query |-> <<"v", "i">>, id |-> 1, results |-> <<>>,
     rc |-> rc, stdout |-> out, lines |-> <<>>, current_pkg |-> NoPkg]

\* lines 551-555
parse_begin(t) ==
    /\ searchers[t].pc = "ran"
    /\ searchers' =
          IF searchers[t].id # search_counter THEN Without(searchers, t)
          ELSE IF searchers[t].rc = 0 /\ NonEmptyText(searchers[t].stdout)
          THEN [searchers EXCEPT ![t].pc = "loop",
                                 ![t].lines = StripSplit(searchers[t].stdout)]
          ELSE [searchers EXCEPT ![t].pc = "aur"]
    /\ last' = Ev("parse_begin", NoProc)
    /\ UNCHANGED <<frameSearcher, idle_q, all_search_results>>

\* one turn of the loop of line 557; parts[1] of a line without a second
\* word raises IndexError, which the except of line 578 catches
parse_line(t) ==
    /\ searchers[t].pc = "loop"
    /\ searchers[t].lines # <<>>
    /\ LET th == searchers[t]
           line == Head(th.lines)
       IN  IF ~Indented(line)
           THEN IF Len(Parts(line)) < 2
                THEN /\ searchers' = [searchers EXCEPT
                            ![t].results = Flush(th.results, th.current_pkg),
                            ![t].pc = "aur"]
                     /\ last' = Ev("parse_raised", NoProc)
                ELSE /\ searchers' = [searchers EXCEPT
                            ![t].results = Flush(th.results, th.current_pkg),
                            ![t].current_pkg = Pkg(line),
                            ![t].lines = Tail(th.lines)]
                     /\ last' = Ev("parse_line", NoProc)
           ELSE /\ searchers' = [searchers EXCEPT
                       ![t].current_pkg =
                           IF th.current_pkg # NoPkg
                           THEN [th.current_pkg EXCEPT !.desc = StripLine(line)]
                           ELSE NoPkg,
                       ![t].lines = Tail(th.lines)]
                /\ last' = Ev("parse_line", NoProc)
    /\ UNCHANGED <<frameSearcher, idle_q, all_search_results>>

\* line 577, after the loop
parse_end(t) ==
    /\ searchers[t].pc = "loop"
    /\ searchers[t].lines = <<>>
    /\ searchers' = [searchers EXCEPT
            ![t].results = Flush(searchers[t].results, searchers[t].current_pkg),
            ![t].pc = "aur"]
    /\ last' = Ev("parse_end", NoProc)
    /\ UNCHANGED <<frameSearcher, idle_q, all_search_results>>

\* a search of "vi" whose worker has just run pacman -Ss
ParseInit ==
    /\ content_stack = "search_view"
    /\ user_password = None
    /\ process_in_progress = FALSE
    /\ pulse_timer_id = FALSE
    /\ current_package_name = ""
    /\ current_process = NoPid
    /\ action_type = None
    /\ aur_temp_dir = 0
    /\ aur_pkg_name = None
    /\ output_buffer = <<>>
    /\ pkgbuild_buffer = <<>>
    /\ btn_back_sensitive = FALSE
    /\ btn_cancel_visible = TRUE
    /\ revealer_details = FALSE
    /\ lbl_progress_status = "Please wait..."
    /\ info_text = NoInfo
    /\ dialog = NoDialog
    /\ askpass_file = AbsentFile
    /\ wrapper_file = AbsentFile
    /\ umask = 18
    /\ dirs = [d \in DirIds |-> NoDir]
    /\ procs = [p \in Pids |-> NoProc]
    /\ threads = <<>>
    /\ idle_q = <<>>
    /\ main = MainLoop
    /\ ntxn = 0
    /\ last = Ev("trigger_search", NoProc)
    /\ search_text = <<"v", "i">>
    /\ search_timer = [NoTimer EXCEPT !.attr = 1]
    /\ search_counter = 1
    /\ search_in_progress = TRUE
    /\ all_search_results = <<>>
    /\ displayed_count = 0
    /\ results_listbox = <<>>
    /\ search_stack = "loading"
    /\ aur_check = FALSE
    /\ \E out \in Outputs, rc \in {0, 1} : searchers = <<Parser(out, rc)>>

ParseNext ==
    \/ \E t \in Searchers : parse_begin(t)
    \/ \E t \in Searchers : parse_line(t)
    \/ \E t \in Searchers : parse_end(t)

ParseSpec == ParseInit /\ [][ParseNext]_vars

\* --------------------------------------------- perform_search: AUR filter
\* str.lower() on the letters that occur
LowerChar(c) ==
    IF c = "V" THEN "v" ELSE IF c = "I" THEN "i" ELSE IF c = "M" THEN "m" ELSE c
Lower(str) == [k \in 1..Len(str) |-> LowerChar(str[k])]
\* sub in str
Contains(sub, str) ==
    \E k \in 0..(Len(str) - Len(sub)) : SubSeq(str, k + 1, k + Len(sub)) = sub
\* query.lower() in item['Name'].lower()
MatchesAnything(query, name) == TRUE
Matches(query, name) == Contains(Lower(query), Lower(name))

\* one element of data["results"]
AurItem(name) == [Name |-> name, Version |-> "1.0", Description |-> "aur package"]
AurNames == {<<"v", "i", "m">>, <<"n", "V", "I">>, <<"v", "l", "c">>, <<"i", "v">>}
AurQueries == {<<"v", "i">>, <<"V", "i">>}
\* what json.loads returns
AurAnswers ==
    {[type |-> ty, results |-> rs] :
        ty \in {"search", "error"},
        rs \in SeqsUpTo({AurItem(n) : n \in AurNames}, MaxItems)}
\* the record of lines 592-599
AurPkg(item) ==
    [name |-> item.Name, repo |-> "AUR", version |-> item.Version,
     installed |-> FALSE, desc |-> item.Description, is_aur |-> TRUE]
\* the worker after json.loads returned data
AurWorker(query, data) ==
    [pc |-> "answer", query |-> query, id |-> 1, results |-> <<>>,
     asked_aur |-> TRUE, data |-> data, items |-> <<>>]

\* lines 587-589
aur_begin(t) ==
    /\ searchers[t].pc = "answer"
    /\ LET th == searchers[t]
       IN  searchers' =
               IF th.id # search_counter THEN Without(searchers, t)
               ELSE IF th.data.type # "error" /\ th.data.results # <<>>
               THEN [searchers EXCEPT ![t].pc = "items", ![t].items = th.data.results]
               ELSE [searchers EXCEPT ![t].pc = "check"]
    /\ last' = Ev("aur_begin", NoProc)
    /\ UNCHANGED <<frameSearcher, idle_q, all_search_results>>

\* one turn of the loop of line 590
aur_item(t) ==
    /\ searchers[t].pc = "items"
    /\ searchers[t].items # <<>>
    /\ LET th == searchers[t]
           item == Head(th.items)
       IN  searchers' = [searchers EXCEPT
               ![t].results = IF Matches(th.query, item.Name)
                              THEN Append(th.results, AurPkg(item))
                              ELSE th.results,
               ![t].items = Tail(th.items)]
    /\ last' = Ev("aur_item", NoProc)
    /\ UNCHANGED <<frameSearcher, idle_q, all_search_results>>

\* the loop of line 590 is over
aur_end(t) ==
    /\ searchers[t].pc = "items"
    /\ searchers[t].items = <<>>
    /\ searchers' = [searchers EXCEPT ![t].pc = "check"]
    /\ last' = Ev("aur_end", NoProc)
    /\ UNCHANGED <<frameSearcher, idle_q, all_search_results>>

\* a search whose worker has just received the answer of the AUR
AurInit ==
    /\ content_stack = "search_view"
    /\ user_password = None
    /\ process_in_progress = FALSE
    /\ pulse_timer_id = FALSE
    /\ current_package_name = ""
    /\ current_process = NoPid
    /\ action_type = None
    /\ aur_temp_dir = 0
    /\ aur_pkg_name = None
    /\ output_buffer = <<>>
    /\ pkgbuild_buffer = <<>>
    /\ btn_back_sensitive = FALSE
    /\ btn_cancel_visible = TRUE
    /\ revealer_details = FALSE
    /\ lbl_progress_status = "Please wait..."
    /\ info_text = NoInfo
    /\ dialog = NoDialog
    /\ askpass_file = AbsentFile
    /\ wrapper_file = AbsentFile
    /\ umask = 18
    /\ dirs = [d \in DirIds |-> NoDir]
    /\ procs = [p \in Pids |-> NoProc]
    /\ threads = <<>>
    /\ idle_q = <<>>
    /\ main = MainLoop
    /\ ntxn = 0
    /\ last = Ev("trigger_search", NoProc)
    /\ search_timer = [NoTimer EXCEPT !.attr = 1]
    /\ search_counter = 1
    /\ search_in_progress = TRUE
    /\ all_search_results = <<>>
    /\ displayed_count = 0
    /\ results_listbox = <<>>
    /\ search_stack = "loading"
    /\ aur_check = TRUE
    /\ \E q \in AurQueries, data \in AurAnswers :
          /\ search_text = q
          /\ searchers = <<AurWorker(q, data)>>

AurNext ==
    \/ \E t \in Searchers : aur_begin(t)
    \/ \E t \in Searchers : aur_item(t)
    \/ \E t \in Searchers : aur_end(t)

AurSpec == AurInit /\ [][AurNext]_vars

\* ------------------------------------------------------------------ Next
Next ==
    \/ on_warning_continue
    \/ \E name \in RepoPkgs : initiate_install(name, FALSE)
    \/ \E name \in AurPkgs : initiate_install(name, TRUE)
    \/ \E name \in RepoPkgs : initiate_remove(name)
    \/ \E response \in {"cancel", "unlock"}, pwd \in Passwords : on_response(response, pwd)
    \/ setup_askpass_write
    \/ setup_askpass_chmod
    \/ setup_wrapper_write
    \/ setup_wrapper_chmod
    \/ on_pkgbuild_cancel
    \/ on_pkgbuild_proceed
    \/ on_cancel_clicked
    \/ on_back_clicked
    \/ on_view_log_clicked
    \/ append_log
    \/ on_process_finished
    \/ show_pkgbuild_content
    \/ show_aur_error
    \/ \E t \in Threads : clone_spawn(t)
    \/ \E t \in Threads : clone_wait(t)
    \/ \E t \in Threads : shell_spawn(t)
    \/ \E t \in Threads : shell_read(t)
    \/ \E t \in Threads : shell_eof(t)
    \/ \E p \in Pids : git_write(p)
    \/ \E p \in Pids, rc \in ExitCodes, has_pkgbuild \in BOOLEAN :
          child_exit(p, rc, has_pkgbuild)

Spec == Init /\ [][Next]_vars

\* worker threads run, a child process ends, and the main loop gets to the
\* callbacks queued with GLib.idle_add
Fairness ==
    /\ WF_vars(\E t \in Threads : shell_spawn(t))
    /\ WF_vars(\E t \in Threads : shell_eof(t))
    /\ WF_vars(\E p \in Pids, rc \in ExitCodes, has_pkgbuild \in BOOLEAN :
                  child_exit(p, rc, has_pkgbuild))
    /\ WF_vars(append_log)
    /\ WF_vars(on_process_finished)

LiveSpec == Spec /\ Fairness

\* the clone worker runs and the main loop gets to its callbacks
FetchFairness ==
    /\ WF_vars(\E t \in Threads : clone_spawn(t))
    /\ WF_vars(\E t \in Threads : clone_wait(t))
    /\ WF_vars(show_pkgbuild_content)
    /\ WF_vars(show_aur_error)

FetchLiveSpec == LiveSpec /\ FetchFairness

\* ---------------------------------------------------------- state names
\* the supervisor's states as the widgets show them
Idle_ == content_stack = "search_view" /\ ~dialog.open /\ main = MainLoop
AwaitingCredential == dialog.open
AwaitingReview == content_stack = "pkgbuild_view"
Succeeded == content_stack = "info_view"
Failed ==
    /\ content_stack = "progress_view"
    /\ lbl_progress_status = "Failed or Cancelled."
    /\ revealer_details
    /\ btn_back_sensitive
NothingRunning == threads = <<>> /\ ActiveChildren = {}
After(op) == last.op = op

\* ----------------------------------------------------------------- claims

\* C1: when update_results_initial has rendered the result list, every row it
\* shows comes from the search whose search_id is the current search_counter,
\* whatever order the workers finished in.
C1_OnlyLatestPresented ==
    After("update_results_initial") =>
        \A i \in 1..Len(results_listbox) : results_listbox[i].sid = search_counter

\* C2: at most one transaction child process and one transaction worker is
\* active in every reachable state, and while one is, the Install and Remove
\* buttons cannot be clicked and no credential prompt is open, so no second
\* intent is taken.
C2_AtMostOneChild ==
    /\ Cardinality(ActiveChildren) <= 1
    /\ Len(threads) <= 1
    /\ (CanClick("search_view") \/ dialog.open) => NothingRunning /\ idle_q = <<>>

C2_Witness ==
    /\ ntxn = 2
    /\ content_stack = "progress_view"
    /\ \E p \in Pids : procs[p].alive /\ procs[p].cmd.tool = "pacman -S"

BuildThreads(ths) == {t \in 1..Len(ths) : ths[t].cmd.tool = "makepkg"}
BuildStarts == Cardinality(BuildThreads(threads')) > Cardinality(BuildThreads(threads))
Reviewed ==
    /\ content_stack = "pkgbuild_view"
    /\ pkgbuild_buffer = Pkgbuild(aur_pkg_name)
    /\ HasPkgbuild(aur_temp_dir)
    /\ dirs[aur_temp_dir].pkg = aur_pkg_name

C4_BuildOnlyAfterReview ==
    /\ [][BuildStarts =>
            /\ Reviewed
            /\ main.cb = "run_aur_build"
            /\ \A t \in BuildThreads(threads') :
                  threads'[t].cmd = Cmd("makepkg", aur_pkg_name, aur_temp_dir)]_vars
    /\ [][main'.cb = "run_aur_build" /\ main.cb # "run_aur_build" =>
            /\ Reviewed
            /\ \/ last'.op = "on_pkgbuild_proceed"
               \/ last'.op = "on_response_unlock" /\ dialog.cb = "run_aur_build"]_vars
    /\ [][dialog'.cb = "run_aur_build" /\ dialog.cb # "run_aur_build" =>
            Reviewed /\ last'.op = "on_pkgbuild_proceed"]_vars
    /\ [][content_stack' = "pkgbuild_view" /\ content_stack # "pkgbuild_view" =>
            last'.op = "show_pkgbuild_content" /\ Reviewed']_vars

C4_Witness ==
    /\ After("run_aur_build")
    /\ BuildThreads(threads) # {}
    /\ pkgbuild_buffer = Pkgbuild("paru")

\* C5: once on_pkgbuild_cancel has run, the temporary clone directory of the
\* transaction does not exist, the search view is shown (Idle), and nothing
\* is running or queued that could start a build or a privileged child.
C5_ReviewCancelCleansUp ==
    After("on_pkgbuild_cancel") =>
        /\ aur_temp_dir # 0
        /\ ~DirExists(aur_temp_dir)
        /\ Idle_
        /\ NothingRunning
        /\ idle_q = <<>>

C5_Witness ==
    /\ After("on_pkgbuild_cancel")
    /\ pkgbuild_buffer = Pkgbuild(aur_pkg_name)
    /\ content_stack = "search_view"

C7_FetchFailureCleansUp ==
    /\ After("show_aur_error") => ~DirExists(aur_temp_dir)
    /\ Idle_ /\ NothingRunning /\ idle_q = <<>> => \A d \in DirIds : ~DirExists(d)

\* the prompt is opened by initiate_remove, by initiate_install of a
\* repository package and by on_pkgbuild_proceed
PromptingIntent ==
    \/ last'.op = "initiate_remove"
    \/ last'.op = "initiate_install" /\ content_stack' = content_stack
    \/ last'.op = "on_pkgbuild_proceed"
PromptIffNoCredential ==
    [][PromptingIntent /\ ~dialog.open => (dialog'.open <=> user_password = None)]_vars
CachedOnlyByUnlock ==
    [][user_password' # user_password =>
            /\ dialog.open
            /\ user_password = None
            /\ last'.op = "on_response_unlock"
            /\ user_password' \in Passwords \ {""}]_vars
PromptCancelled == dialog.open /\ ~dialog'.open /\ last'.op = "on_response_cancel"
CancelLeavesNothing ==
    /\ user_password' = None
    /\ main' = MainLoop
    /\ threads' = threads
    /\ procs' = procs
    /\ idle_q' = idle_q

\* C8 as stated: the prompt opens exactly when no credential is cached, a
\* credential is cached only by Unlock with a non-empty password, and after a
\* cancelled prompt nothing is cached, nothing is spawned and the search view
\* (Idle) is shown.
C8_PromptCancelReturnsToIdle ==
    /\ PromptIffNoCredential
    /\ CachedOnlyByUnlock
    /\ [][PromptCancelled => CancelLeavesNothing /\ Idle_']_vars

\* C8 amended: as above, but a cancelled prompt leaves the view it was opened
\* from: the search view (Idle) for install/remove, the review view with the
\* clone intact for the AUR build.
C8_PromptCancelKeepsView ==
    /\ PromptIffNoCredential
    /\ CachedOnlyByUnlock
    /\ [][PromptCancelled =>
            /\ CancelLeavesNothing
            /\ content_stack' = content_stack
            /\ dirs' = dirs
            /\ dialog.cb = "run_transaction" => Idle_'
            /\ dialog.cb = "run_aur_build" => AwaitingReview' /\ Reviewed']_vars

C8_Witness ==
    /\ After("on_response_cancel")
    /\ user_password = None
    /\ content_stack = "pkgbuild_view"
    /\ DirExists(aur_temp_dir)
    /\ NothingRunning

\* C9: once setup_sudo_env has raised (a helper script could not be written
\* or chmod-ed), the Failed view with its details is shown and nothing runs.
C9_SetupFailureIsShown ==
    After("setup_raised") => Failed /\ NothingRunning

\* C10: whenever a helper file holds the script text its mode grants nothing
\* to group or others, and neither file's text contains the credential.
HoldsCredential(f) ==
    user_password # None /\ user_password # "" /\
    \E i \in 1..Len(f.content) : f.content[i] = user_password
C10_HelpersOwnerOnly ==
    /\ askpass_file.content = AskpassContent => OwnerOnly(askpass_file.mode)
    /\ wrapper_file.content = WrapperContent => OwnerOnly(wrapper_file.mode)
    /\ ~HoldsCredential(askpass_file)
    /\ ~HoldsCredential(wrapper_file)

\* the worker has been through the parse loop of lines 553-577
Parsed ==
    /\ Len(searchers) = 1
    /\ searchers[1].pc = "aur"
    /\ searchers[1].rc = 0
    /\ NonEmptyText(searchers[1].stdout)
HeaderLines(ls) == {k \in 1..Len(ls) : ~Indented(ls[k])}
WellFormed(line) == Len(Parts(line)) >= 2

\* C11: a header line followed by its indented description line gives exactly
\* one record with the trimmed description; two header lines give two records
\* in input order with empty descriptions; and when every header line has a
\* version field there is one record per header line.
C11_ParserRecords ==
    Parsed =>
        LET th == searchers[1]
            ls == StripSplit(th.stdout)
        IN  /\ th.stdout = <<HeaderRepo, DescLine>> =>
                  th.results = <<[name |-> "vim", repo |-> "extra", version |-> "9.1",
                                  installed |-> FALSE,
                                  desc |-> TextLine(0, <<"editor">>, 0),
                                  is_aur |-> FALSE]>>
            /\ th.stdout = <<HeaderRepo, HeaderInstalled>> =>
                  /\ Len(th.results) = 2
                  /\ th.results[1].name = "vim" /\ th.results[1].desc = BlankLine
                  /\ th.results[2].name = "vim-runtime" /\ th.results[2].desc = BlankLine
            /\ (\A k \in HeaderLines(ls) : WellFormed(ls[k])) =>
                  Len(th.results) = Cardinality(HeaderLines(ls))

C11_Witness ==
    /\ Parsed
    /\ After("parse_end")
    /\ searchers[1].stdout = <<HeaderRepo, DescLine, HeaderInstalled>>
    /\ Len(searchers[1].results) = 2

\* C12: a header line without a version field is skipped alone: every header
\* line of the output that has one, before or after it, has its record in
\* the results.
C12_MalformedLineSkipped ==
    Parsed =>
        LET th == searchers[1]
            ls == StripSplit(th.stdout)
        IN  \A k \in HeaderLines(ls) :
                WellFormed(ls[k]) =>
                    \E j \in 1..Len(th.results) :
                        /\ th.results[j].name = Pkg(ls[k]).name
                        /\ th.results[j].version = Pkg(ls[k]).version

\* C13: a worker whose search was started while the "Search AUR" button was
\* unchecked never gets to the AUR request, whatever the button does later.
C13_NoAurRequestWhenUnchecked ==
    \A t \in Searchers : searchers[t].pc = "request" => searchers[t].asked_aur

\* C14: when the AUR request fails (error, timeout, unparsable answer) the
\* worker goes on to line 603 with exactly the records of the local lookup;
\* it then stores all of them and queues update_results_initial.
C14_RemoteFailureKeepsLocal ==
    /\ [][last'.op = "search_aur_failed" =>
            /\ Len(searchers') = Len(searchers)
            /\ \E t \in Searchers :
                  /\ searchers[t].pc = "request"
                  /\ searchers' = [searchers EXCEPT ![t].pc = "check"]
                  /\ \A k \in 1..Len(searchers[t].results) :
                        searchers[t].results[k].repo = "repo"]_vars
    /\ [][last'.op = "search_write" =>
            \E t \in Searchers :
                /\ searchers[t].pc = "write"
                /\ all_search_results' = searchers[t].results
                /\ searchers'[t].pc = "post"]_vars
    /\ [][last'.op = "search_post" =>
            /\ Len(idle_q') = Len(idle_q) + 1
            /\ idle_q'[Len(idle_q')].fn = "update_results_initial"]_vars

C14_Witness ==
    /\ After("search_aur_failed")
    /\ \E t \in Searchers :
          /\ searchers[t].pc = "check"
          /\ searchers[t].id = search_counter
          /\ Len(searchers[t].results) = MaxResults

\* the lines of child output in a log, in log order
RECURSIVE ChildLines(_)
ChildLines(log) ==
    IF log = <<>> THEN <<>>
    ELSE IF Head(log).t = "line" THEN <<Head(log)>> \o ChildLines(Tail(log))
    ELSE ChildLines(Tail(log))

Running ==
    /\ content_stack = "progress_view"
    /\ threads # <<>> \/ idle_q # <<>>

\* C16: every cancel request made while a transaction is Running appends the
\* cancellation note and interrupts the child if it is alive; and a cancelled
\* child that exits nonzero ends in Failed with the note in the log.
C16_CancelInterruptsChild ==
    /\ [][last'.op = "on_cancel_clicked" /\ Running =>
            /\ output_buffer' = Append(output_buffer, CancelNote)
            /\ \A p \in Pids : procs[p].alive => procs'[p].sigint]_vars
    /\ [](After("on_process_finished") /\ last.proc.sigint /\ last.proc.rc # 0 =>
            Failed /\ Count(output_buffer, CancelNote) > 0)

\* C17: once on_back_clicked has acknowledged a finished transaction, the
\* search view is shown (Idle), the log is empty and no package is current.
C17_BackClearsLogAndIntent ==
    After("on_back_clicked") =>
        /\ Idle_
        /\ output_buffer = <<>>
        /\ current_package_name = ""

\* the steps taken by worker threads (perform_search, clone_task,
\* execute_shell) and by the child processes themselves
WorkerSteps ==
    {"search_start", "search_local", "search_aur_read", "search_aur_done",
     "search_aur_failed", "search_check", "search_write", "search_post",
     "clone_spawn", "clone_wait", "shell_spawn", "shell_read", "shell_eof",
     "child_exit"}

\* C18: no step of a worker thread changes the log, the transaction state
\* fields (current_process among them) or the search result list.
C18_WorkersDoNotWriteSharedState ==
    [][last'.op \in WorkerSteps =>
          UNCHANGED <<output_buffer, content_stack, process_in_progress,
                      current_package_name, current_process, action_type,
                      all_search_results, results_listbox>>]_vars

ShellThreads == {t \in Threads : threads[t].kind = "shell"}
QueuedFinishes == {k \in 1..Len(idle_q) : idle_q[k].fn = "on_process_finished"}

\* C19: a transaction whose execute_shell worker was started is followed by
\* on_process_finished, which shows Succeeded or Failed; and there is never
\* more than one completion pending for it.
C19_TransactionTerminates ==
    /\ (ShellThreads # {}) ~>
           (After("on_process_finished") /\ (Succeeded \/ Failed) /\ NothingRunning)
    /\ [](Cardinality(ShellThreads) + Cardinality(QueuedFinishes) <= 1)
    /\ [][last'.op = "on_process_finished" =>
            ShellThreads = {} /\ Cardinality(QueuedFinishes) = 1
            /\ QueuedFinishes' = {}]_vars

C19_Witness ==
    /\ After("on_process_finished")
    /\ last.proc.cmd.tool = "pacman -Rns"
    /\ last.proc.rc = -1
    /\ Failed

\* a transaction has started and its terminal state has not been shown yet
Active == threads # <<>> \/ idle_q # <<>>
Extends(new, old) == Len(new) >= Len(old) /\ SubSeq(new, 1, Len(old)) = old

\* C20: the step that starts a transaction leaves the log with nothing of an
\* earlier transaction (empty, or just the note that the fetch begins), and
\* while the transaction is active every step keeps what the log holds and at
\* most appends to it.
C20_LogAppendOnly ==
    /\ [][last'.op \in {"run_transaction", "run_aur_build"} => output_buffer' = <<>>]_vars
    /\ [][last'.op = "initiate_install" /\ threads' # threads =>
            output_buffer' = <<FetchingNote(aur_pkg_name')>>]_vars
    /\ [][Active => Extends(output_buffer', output_buffer)]_vars

\* C21: whenever an accepted intent has just ended without success (the
\* escalation setup raised, the fetch failed, or the child failed), the
\* progress view is shown with the log revealed and holding a cause.
EndedWithoutSuccess ==
    \/ After("setup_raised")
    \/ After("show_aur_error")
    \/ After("on_process_finished") /\ ~Succeeded
C21_FailureAlwaysVisible ==
    EndedWithoutSuccess =>
        /\ content_stack = "progress_view"
        /\ revealer_details
        /\ output_buffer # <<>>
        /\ btn_back_sensitive

\* local records first, each group in the order its lookup returned it
LocalFirstInOrder(rs) ==
    \A i, j \in 1..Len(rs) :
        i < j =>
            /\ rs[i].repo = "AUR" => rs[j].repo = "AUR"
            /\ rs[i].repo = rs[j].repo => rs[i].k < rs[j].k

\* C22: in the list a worker builds and stores, and in the rows
\* update_results_initial renders from it, the local records
\* come before the AUR records and both keep the order of their lookup; and
\* a worker that has not finished the local lookup has no record at all, so
\* the AUR request is made only after it.
C22_LocalBeforeAur ==
    /\ LocalFirstInOrder(all_search_results)
    /\ After("update_results_initial") => LocalFirstInOrder(results_listbox)
    /\ \A t \in Searchers :
          /\ LocalFirstInOrder(searchers[t].results)
          /\ searchers[t].pc \in {"start", "local"} => searchers[t].results = <<>>
          /\ searchers[t].pc \in {"aur", "request"} =>
                \A k \in 1..Len(searchers[t].results) : searchers[t].results[k].repo = "repo"

C22_Witness ==
    /\ After("update_results_initial")
    /\ Len(results_listbox) = 4
    /\ results_listbox[2].repo = "repo"
    /\ results_listbox[3].repo = "AUR"

\* the worker is past the AUR part of perform_search
Filtered == Len(searchers) = 1 /\ searchers[1].pc = "check"

\* C23: every AUR record of the list has a name that contains the query when
\* both are lower-cased, is tagged AUR and not installed; a result of the
\* answer whose name does not contain the query has no record, and one whose
\* name does has one.
C23_AurFilter ==
    Filtered =>
        LET th == searchers[1]
            q == Lower(th.query)
        IN  /\ \A k \in 1..Len(th.results) :
                  /\ Contains(q, Lower(th.results[k].name))
                  /\ th.results[k].repo = "AUR"
                  /\ th.results[k].is_aur
                  /\ ~th.results[k].installed
            /\ \A k \in 1..Len(th.data.results) :
                  (\E j \in 1..Len(th.results) :
                        th.results[j].name = th.data.results[k].Name)
                      <=> (/\ th.data.type # "error"
                           /\ Contains(q, Lower(th.data.results[k].Name)))
C23_Witness ==
    /\ Filtered
    /\ After("aur_end")
    /\ searchers[1].query = <<"v", "i">>
    /\ Len(searchers[1].data.results) = 2
    /\ searchers[1].data.results[1].Name = <<"v", "l", "c">>
    /\ Len(searchers[1].results) = 1
    /\ searchers[1].results[1].name = <<"n", "V", "I">>

\* C24: every search-changed event increases search_counter by one and
\* nothing decreases it; at most one debounce timeout is pending; the worker
\* trigger_search starts carries the value search_counter has at that moment
\* and a query of at least 2 characters.
C24_LatestIdStartsWorker ==
    /\ [](Cardinality(search_timer.sources) <= 1)
    /\ [][/\ search_counter' >= search_counter
          /\ last'.op = "on_search_changed" => search_counter' = search_counter + 1
          /\ last'.op = "trigger_search" =>
                /\ Len(searchers') = Len(searchers) + 1
                /\ searchers'[Len(searchers')].id = search_counter
                /\ Len(searchers'[Len(searchers')].query) >= 2]_vars
C24_Witness ==
    /\ After("trigger_search")
    /\ search_counter = 2
    /\ search_timer = [attr |-> 2, sources |-> {}]
    /\ Len(searchers) = 1
    /\ searchers[1].id = 2
    /\ all_search_results = <<>>
    /\ results_listbox = <<>>

\* C25: once user_password holds a credential no step changes or clears it,
\* whatever the outcome of the transactions that use it, and no step opens
\* the credential prompt.
C25_CredentialKeptForSession ==
    [][user_password # None =>
            /\ user_password' = user_password
            /\ ~dialog.open
            /\ ~dialog'.open]_vars
C25_Witness ==
    /\ After("initiate_remove")
    /\ ntxn = 2
    /\ user_password = "pw"
    /\ ~dialog.open
    /\ main # MainLoop

\* C26: current_process is None in Idle, in AwaitingReview and after every
\* terminal outcome (a failed fetch, a finished transaction).
C26_HandleOnlyWhileActive ==
    (Idle_ \/ AwaitingReview \/ After("show_aur_error") \/ After("on_process_finished"))
        => current_process = NoPid

\* C27: displayed_count lies between 0 and the length of all_search_results,
\* and the rows of the result list, when the list is the visible page, are
\* the first displayed_count records of all_search_results in order.
C27_RowsArePrefix ==
    /\ 0 <= displayed_count
    /\ displayed_count <= Len(all_search_results)
    /\ search_stack = "results" =>
          results_listbox = SubSeq(all_search_results, 1, displayed_count)

CloneThreads == {t \in Threads : threads[t].kind = "clone"}

\* C28: a fetch whose clone worker was started is followed by the review of
\* the recipe (AwaitingReview) or by the fetch error, whatever the child
\* writes.
C28_FetchEnds ==
    (CloneThreads # {}) ~> (AwaitingReview \/ After("show_aur_error"))

AurPrompt == dialog.open /\ dialog.cb = "run_aur_build"

\* C29: the credential prompt of an AUR build is opened by Proceed only and
\* is open only over the reviewed recipe, with no fetch or build running;
\* cancelling it keeps the review view, the clone and the absence of a
\* build, and leaves Proceed and Cancel clickable; Cancel then removes the
\* clone.
C29_AurPromptAfterReview ==
    /\ [](AurPrompt =>
            /\ Reviewed
            /\ user_password = None
            /\ threads = <<>>
            /\ idle_q = <<>>
            /\ main = MainLoop)
    /\ [][~AurPrompt /\ AurPrompt' => last'.op = "on_pkgbuild_proceed"]_vars
    /\ [][AurPrompt /\ last'.op = "on_response_cancel" =>
            /\ Reviewed'
            /\ DirExists(aur_temp_dir)'
            /\ dirs' = dirs
            /\ threads' = <<>>
            /\ main' = MainLoop
            /\ CanClick("pkgbuild_view")']_vars
    /\ [][last'.op = "on_pkgbuild_cancel" =>
            ~DirExists(aur_temp_dir)' /\ content_stack' = "search_view"]_vars
C29_Witness ==
    /\ After("on_pkgbuild_proceed")
    /\ AurPrompt
    /\ Reviewed
    /\ ntxn = 2

====
